---- MODULE Spec2Model ----
(***************************************************************************)
(* Model of the MCP protocol core of mcp-server/backend/mcp_server.py:     *)
(* the JSON-RPC dispatcher (MCPProtocolHandler), the POST /mcp endpoint,   *)
(* the SSE transport (GET /mcp/sse) with its session map, the messages     *)
(* endpoint (POST /mcp/messages) and the activity log; of the capability  *)
(* routes of main.py that edit the table the dispatcher reads; of the      *)
(* stdio to SSE bridge of mcp-bridge/bridge.py; and of the reservations of *)
(* truck-loading/backend and the request approval of holidays/backend.     *)
(*                                                                         *)
(* Python values: a dict is a record; a missing key is a missing field;    *)
(* a value that is not a dict is a record carrying its type name in the    *)
(* field pytype (None is [pytype |-> "NoneType"]); the scalar None (a      *)
(* JSON-RPC id of null) is the string "None".  A message built with an     *)
(* f-string is the sequence of its pieces.                                 *)
(***************************************************************************)
EXTENDS Integers, Sequences, FiniteSets, TLC

\* ------------------------------------------------------------------------
\* Bounds of the model
\* ------------------------------------------------------------------------
MaxRequests == 3      \* requests (GET /mcp/sse, POST /mcp/messages, POST /mcp) and keepalive timeouts in one behaviour
MaxLiveRequests == 2  \* the same, in the behaviours checked for liveness
MaxToggles == 2       \* toggle_capability_live calls in one behaviour
MaxCapId == 3         \* the largest id a capability row gets
MaxStdin == 2         \* messages the local peer writes to the stdin of the bridge
MaxSseLines == 3      \* lines the server sends on the SSE stream of the bridge
MaxLogged == 3          \* log calls of a behaviour of the log stream specification
MaxOverflow == 2        \* log calls beyond the capacity of the deque
MaxReservations == 2    \* rows of the reservations table
MaxHolidayRequests == 2 \* rows of the holiday_requests table

\* ------------------------------------------------------------------------
\* Python values
\* ------------------------------------------------------------------------
None == "None"
NoneType == [pytype |-> "NoneType"]
ListType == [pytype |-> "list"]

IsDict(v) == "pytype" \notin DOMAIN v

\* dict.get(key, default)
get(d, key, default) == IF key \in DOMAIN d THEN d[key] ELSE default

\* the empty dict {}
EmptyDict == [x \in {} |-> None]

\* ------------------------------------------------------------------------
\* Capabilities (models.py) and the requests drawn as inputs
\* ------------------------------------------------------------------------
CapIds == {1, 2}

\* The two capability rows the model works with.  A template is the
\* sequence of its pieces: text, or a {{name}} placeholder.
CapabilityRows ==
  [c \in CapIds |->
     IF c = 1
     THEN [name |-> "list_active_customers", connection_id |-> 1,
           sql_template |-> << [text |-> "SELECT * FROM customers"] >>,
           parameters |-> << >>]
     ELSE [name |-> "orders_by_customer", connection_id |-> 1,
           sql_template |-> << [text |-> "SELECT * FROM orders WHERE c = "],
                               [param |-> "customer_id"] >>,
           parameters |-> << [name |-> "customer_id", type |-> "integer",
                              required |-> TRUE] >>]]

\* The capabilities that POST /api/capabilities is called with: one whose
\* required parameter is no placeholder of its template, and one with the
\* name of a row that exists.
NewCapabilities ==
  { [name |-> "recent_orders", connection_id |-> 1,
     sql_template |-> << [text |-> "SELECT * FROM orders LIMIT 10"] >>,
     parameters |-> << [name |-> "since", type |-> "date", required |-> TRUE] >>],
    [name |-> "list_active_customers", connection_id |-> 1,
     sql_template |-> << [text |-> "SELECT 1"] >>,
     parameters |-> << >>] }

RequestIds == {"1", "2"}

\* a method that is the JSON array [], written as its JSON text
ListMethod == "[]"

Methods == {"initialize", "tools/list", "tools/call", "resources/list", ListMethod}

ParamValues ==
  { NoneType,
    [name |-> "list_active_customers", arguments |-> EmptyDict],
    [name |-> "orders_by_customer", arguments |-> EmptyDict],
    [name |-> "orders_by_customer", arguments |-> [customer_id |-> "7"]],
    [name |-> "no_such_tool", arguments |-> EmptyDict] }

\* Decoded JSON objects: every combination of method, params and id, the
\* three keys being optional.
ObjectBodies ==
  LET withMethod == {[method |-> m] : m \in Methods} \cup {EmptyDict}
      withId(r) == {r} \cup {[k \in DOMAIN r \cup {"id"} |->
                                IF k = "id" THEN i ELSE r[k]] : i \in RequestIds}
      withParams(r) == {r} \cup {[k \in DOMAIN r \cup {"params"} |->
                                IF k = "params" THEN p ELSE r[k]] : p \in ParamValues}
  IN UNION {UNION {withParams(r2) : r2 \in withId(r1)} : r1 \in withMethod}

\* The requests sent while the capabilities table is edited
CrudBodies ==
  {[raw |-> "json", value |-> [method |-> "tools/list", id |-> "1"]]}
  \cup {[raw |-> "json", value |-> [method |-> "tools/call", id |-> "2", params |-> p]] :
          p \in (ParamValues \ {NoneType})
                 \cup {[name |-> "recent_orders", arguments |-> EmptyDict]}}

\* A request body as it arrives: text that is not JSON, JSON that is not an
\* object, or a JSON object.
Malformed == [raw |-> "malformed"]
NonObject == [raw |-> "json", value |-> ListType]
Bodies == {Malformed, NonObject} \cup {[raw |-> "json", value |-> o] : o \in ObjectBodies}

\* ------------------------------------------------------------------------
\* MCPProtocolHandler
\* ------------------------------------------------------------------------
SUPPORTED_PROTOCOL_VERSION == "2024-11-05"

\* A handler either returns a value or raises; calls records the
\* collaborators it reached, in order.
Return(v, calls) == [ok |-> TRUE, value |-> v, calls |-> calls]
Raise(msg, calls) == [ok |-> FALSE, exc |-> msg, calls |-> calls]

RECURSIVE RowOrder(_)
\* the row ids of a query result, in table order
RowOrder(ids) ==
  IF ids = {} THEN << >>
  ELSE LET m == CHOOSE x \in ids : \A y \in ids : x <= y
       IN <<m>> \o RowOrder(ids \ {m})

\* get_live_capabilities without the filter on is_live
get_live_capabilities_all(db) ==
  LET order == RowOrder(DOMAIN db.capabilities)
  IN [i \in 1..Len(order) |-> db.capabilities[order[i]]]

\* db.query(Capability).filter(Capability.is_live == True).all()
get_live_capabilities(db) ==
  LET live == {c \in DOMAIN db.capabilities : db.capabilities[c].is_live}
      order == RowOrder(live)
  IN [i \in 1..Len(order) |-> db.capabilities[order[i]]]

json_type_map(t) ==
  CASE t = "string" -> "string"
    [] t = "integer" -> "integer"
    [] t = "float" -> "number"
    [] t = "boolean" -> "boolean"
    [] t = "date" -> "string"
    [] OTHER -> "string"

capability_to_mcp_tool(capability) ==
  LET ps == capability.parameters
      prop(p) == [name |-> get(p, "name", ""),
                  type |-> json_type_map(get(p, "type", "string")),
                  format |-> IF get(p, "type", "string") = "date" THEN "date" ELSE ""]
  IN [name |-> capability.name,
      inputSchema |->
        [type |-> "object",
         properties |-> {prop(ps[i]) : i \in 1..Len(ps)},
         required |-> {get(ps[i], "name", "") : i \in {j \in 1..Len(ps) : get(ps[j], "required", TRUE)}}]]

handle_initialize(params) ==
  Return([protocolVersion |-> SUPPORTED_PROTOCOL_VERSION,
          capabilities |-> [tools |-> "{}"],
          serverInfo |-> [name |-> "mcp-server-generator", version |-> "1.0.0"]],
         << "handle_initialize" >>)

handle_tools_list(db, params) ==
  LET caps == get_live_capabilities(db)
  IN Return([tools |-> [i \in 1..Len(caps) |-> capability_to_mcp_tool(caps[i])]],
            << "handle_tools_list", "get_live_capabilities" >>)

\* SQLExecutor.extract_parameters
extract_parameters(sql_template) ==
  {sql_template[i].param : i \in {j \in 1..Len(sql_template) : "param" \in DOMAIN sql_template[j]}}

\* SQLExecutor.validate_parameters: the names of the expected parameters
\* that raise "Required parameter ... not provided"
MissingRequired(sql_template, provided_params, parameter_definitions) ==
  LET defs(n) == {parameter_definitions[i] : i \in {j \in 1..Len(parameter_definitions) :
                                                     parameter_definitions[j].name = n}}
      param_def(n) == IF defs(n) = {} THEN EmptyDict ELSE CHOOSE d \in defs(n) : TRUE
  IN {n \in extract_parameters(sql_template) :
        /\ n \notin DOMAIN provided_params
        /\ "default" \notin DOMAIN param_def(n)
        /\ get(param_def(n), "required", TRUE)}

\* SQLExecutor.execute: queryOk is the outcome of connector.execute_query
execute(sql_template, params, parameter_definitions, queryOk) ==
  LET missing == MissingRequired(sql_template, params, parameter_definitions)
  IN IF missing # {}
     THEN [success |-> FALSE,
           error |-> << "Required parameter '", CHOOSE n \in missing : TRUE, "' not provided" >>,
           calls |-> << "validate_parameters" >>]
     ELSE IF queryOk
          THEN [success |-> TRUE, data |-> "rows",
                calls |-> << "validate_parameters", "execute_query" >>]
          ELSE [success |-> FALSE, error |-> << "query failed" >>,
                calls |-> << "validate_parameters", "execute_query" >>]

\* find_capability that looks at the name alone
find_capability_any(db, tool_name) ==
  {c \in DOMAIN db.capabilities : db.capabilities[c].name = tool_name}

\* the rows of db.query(Capability).filter(name == tool_name, is_live == True)
find_capability(db, tool_name) ==
  {c \in DOMAIN db.capabilities :
     /\ db.capabilities[c].name = tool_name
     /\ db.capabilities[c].is_live}

handle_tools_call(db, params, queryOk) ==
  IF ~IsDict(params)
  THEN Raise(<< "'", params.pytype, "' object has no attribute 'get'" >>,
             << "handle_tools_call" >>)
  ELSE
  LET tool_name == get(params, "name", None)
      arguments == get(params, "arguments", EmptyDict)
      found == find_capability(db, tool_name)
  IN IF tool_name = None
     THEN Raise(<< "Tool name is required" >>, << "handle_tools_call" >>)
     ELSE IF found = {}
     THEN Raise(<< "Tool '", tool_name, "' not found or not live" >>,
                << "handle_tools_call", "query_capability" >>)
     ELSE
       LET capability == db.capabilities[CHOOSE c \in found : \A d \in found : c <= d]
       IN IF capability.connection_id \notin db.connections
          THEN Raise(<< "Database connection for tool '", tool_name, "' not found" >>,
                     << "handle_tools_call", "query_capability", "query_connection" >>)
          ELSE
            LET result == execute(capability.sql_template, arguments,
                                  capability.parameters, queryOk)
                calls == << "handle_tools_call", "query_capability", "query_connection" >>
                           \o result.calls
            IN IF result.success
               THEN Return([content |-> << [type |-> "text", text |-> result.data] >>], calls)
               ELSE Raise(<< "Query execution failed: " >> \o result.error, calls)

\* the keys of the handlers dict of handle_request
handlers == {"initialize", "tools/list", "tools/call"}

\* MethodNotFound answering with the code of "Invalid Request"
MethodNotFound_wrong_code(request_id, method) ==
  [jsonrpc |-> "2.0", id |-> request_id,
   error |-> [code |-> -32600, message |-> << "Method '", method, "' not found" >>]]

\* the envelope handle_request returns when the handlers dict has no entry
MethodNotFound(request_id, method) ==
  [jsonrpc |-> "2.0", id |-> request_id,
   error |-> [code |-> -32601, message |-> << "Method '", method, "' not found" >>]]

\* HandlerResult answering every request with id null
HandlerResult_null_id(request_id, result) ==
  [jsonrpc |-> "2.0", id |-> None, result |-> result]

\* the envelope handle_request returns when the handler returned
HandlerResult(request_id, result) ==
  [jsonrpc |-> "2.0", id |-> request_id, result |-> result]

\* HandlerError answering with the code of "Internal error"
HandlerError_wrong_code(request_id, e) ==
  [jsonrpc |-> "2.0", id |-> request_id, error |-> [code |-> -32603, message |-> e]]

\* the envelope handle_request returns when the handler raised e
HandlerError(request_id, e) ==
  [jsonrpc |-> "2.0", id |-> request_id, error |-> [code |-> -32000, message |-> e]]

\* handle_request, together with the trace of what it called.  The lookup
\* handlers.get(method) is outside the try block: a method that cannot be
\* hashed raises TypeError out of handle_request.
Dispatch(db, request, queryOk) ==
  LET method == get(request, "method", "")
      params == get(request, "params", NoneType)
      request_id == get(request, "id", None)
  IN IF method = ListMethod
     THEN [raised |-> << "unhashable type: 'list'" >>, calls |-> << >>]
     ELSE IF method \notin handlers
     THEN [response |-> MethodNotFound(request_id, method), calls |-> << >>]
     ELSE
       LET r == CASE method = "initialize" -> handle_initialize(params)
                  [] method = "tools/list" -> handle_tools_list(db, params)
                  [] method = "tools/call" -> handle_tools_call(db, params, queryOk)
       IN IF r.ok
          THEN [response |-> HandlerResult(request_id, r.value), calls |-> r.calls]
          ELSE [response |-> HandlerError(request_id, r.exc), calls |-> r.calls]

handle_request(db, request, queryOk) == Dispatch(db, request, queryOk).response

\* ------------------------------------------------------------------------
\* State
\* ------------------------------------------------------------------------
VARIABLES
  sse_sessions,      \* the session map: session id -> contents of its queue
  created,           \* number of SSE connections accepted so far (uuid4 is fresh)
  gen,               \* per session id: where its event_generator stands
  stream,            \* per session id: the events its generator has yielded
  pings,             \* keepalive timeouts so far
  disconnected,      \* per session id: request.is_disconnected()
  post,              \* per POST /mcp/messages request: where its handler stands
  entries,           \* mcp_activity.entries
  capabilities,      \* the capabilities table
  connections,       \* ids of the rows of database_connections
  toggles,           \* number of toggle_capability_live calls so far
  http,              \* the last exchange on POST /mcp
  enqueued,          \* history: per session id, every item put on its queue, in order
  limit,             \* the number of requests this behaviour may see
  pipe,              \* bridge: the bytes written to its stdin and not yet read
  written,           \* bridge: number of messages the local peer has written
  stdin_closed,      \* bridge: the local peer has closed the stdin of the bridge
  reader,            \* bridge: where read_stdin stands
  buffer,            \* bridge: buffer of read_stdin
  stdin_queue,       \* bridge: stdin_queue
  read_log,          \* history: every message put on stdin_queue, in order
  sse_task,          \* bridge: where process_sse stands
  sse_lines,         \* bridge: number of lines received on the SSE stream
  bridge_event_type, \* bridge: event_type of process_sse
  sse_own_type,      \* history: the type the "event:" line of the current event gave
  bridge_endpoint,   \* bridge: messages_endpoint of main
  stdout,            \* bridge: the lines printed to stdout
  fwd,               \* bridge: where forward_messages stands, and the message it holds
  posted,            \* history: every POST of forward_messages, in order
  main_task,         \* bridge: where main stands
  logged,            \* activity log: number of MCPActivityLog.log calls so far
  loglimit,          \* activity log: the number of log calls this behaviour may see
  listeners,         \* mcp_activity.listeners: the listener queues, in order of registration
  lqueue,            \* per listener: the contents of its asyncio.Queue
  sub,               \* per listener: where its GET /mcp/logs/stream stands, what it was sent
  logs,              \* the last answer of GET /mcp/logs
  slots,             \* truck-loading: the loading_slots table
  reservations,      \* truck-loading: the reservations table, by id
  truck_result,      \* truck-loading: what the last crud call returned or raised
  holiday_requests,  \* holidays: the holiday_requests table, by id
  holiday_response   \* holidays: the last response of the approve and reject endpoints

bridgeVars == << pipe, written, stdin_closed, reader, buffer, stdin_queue, read_log,
                sse_task, sse_lines, bridge_event_type, sse_own_type, bridge_endpoint,
                stdout, fwd, posted, main_task >>

logVars == << logged, loglimit, listeners, lqueue, sub, logs >>

appVars == << slots, reservations, truck_result, holiday_requests, holiday_response >>

vars == << sse_sessions, created, gen, stream, pings, disconnected, post,
           entries, capabilities, connections, toggles, http, enqueued, limit, bridgeVars,
           logVars, appVars >>

serverVars == << sse_sessions, created, gen, stream, pings, disconnected, post,
                 entries, capabilities, connections, toggles, http, enqueued, limit >>

sseVars == << sse_sessions, created, gen, stream, pings, disconnected, enqueued >>
dbVars == << capabilities, connections, toggles >>

SessionIds == 1..MaxRequests
PostIds == 1..MaxRequests

db == [capabilities |-> capabilities, connections |-> connections]

\* requests received and queue waits timed out so far
Requests == created + Cardinality({h \in PostIds : post[h].pc # "idle"}) + http.n + pings

\* ------------------------------------------------------------------------
\* MCPActivityLog
\* ------------------------------------------------------------------------
max_entries == 100

\* deque.append of a deque that drops the entry it is given when it is full
deque_append_keep_oldest(d, entry) ==
  IF Len(d) < max_entries THEN Append(d, entry) ELSE d

\* deque(maxlen=max_entries).append
deque_append(d, entry) ==
  IF Len(d) < max_entries THEN Append(d, entry)
  ELSE Append(SubSeq(d, 2, Len(d)), entry)

RECURSIVE log_all(_, _)
\* MCPActivityLog.log, called once for every entry of es in order
log_all(d, es) ==
  IF es = << >> THEN d ELSE log_all(deque_append(d, Head(es)), Tail(es))

LogEntry(event_type, session_id) == [event_type |-> event_type, session_id |-> session_id]
LogEntryNoSession(event_type) == [event_type |-> event_type]

\* the entry built by the n-th call of log: its uuid4 id is fresh, so the
\* number of the call stands for it
Entry(n) == [id |-> n]

\* asyncio.Queue(maxsize=...) of add_listener
listener_maxsize == 100

\* put_nowait on a queue without maxsize
listener_put_unbounded(q, entry) == Append(q, entry)

\* listener.put_nowait(entry) with asyncio.QueueFull swallowed
listener_put(q, entry) ==
  IF Len(q) >= listener_maxsize THEN q ELSE Append(q, entry)

\* list(self.entries)[-limit:] : a slice from index -limit; -0 is index 0
get_recent(d, n) ==
  IF n > 0
    THEN SubSeq(d, IF Len(d) > n THEN Len(d) - n + 1 ELSE 1, Len(d))
    ELSE SubSeq(d, 1 - n, Len(d))

\* the number of entries stream_mcp_logs replays
replay_limit == 20

\* the streams of GET /mcp/logs/stream a behaviour may open
ListenerIds == {1, 2}

\* the values of the query parameter limit of GET /mcp/logs
MaxLimit == 2
Limits == -1..MaxLimit

\* ------------------------------------------------------------------------
\* Envelopes and events
\* ------------------------------------------------------------------------
\* ParseError carrying the code of "Invalid Request"
ParseError_wrong_code ==
  [jsonrpc |-> "2.0", id |-> None,
   error |-> [code |-> -32600, message |-> << "Parse error" >>]]

\* the parse-error envelope built by mcp_endpoint and by mcp_messages
ParseError == [jsonrpc |-> "2.0", id |-> None,
               error |-> [code |-> -32700, message |-> << "Parse error" >>]]

\* ParseErrorAck of a handler that answers the POST with the envelope
ParseErrorAck_envelope ==
  [jsonrpc |-> "2.0", id |-> None,
   error |-> [code |-> -32700, message |-> << "Parse error" >>]]

\* what mcp_messages answers to a body that is not JSON
ParseErrorAck == [status |-> "error", message |-> "Parse error"]

\* json.dumps: the text whose decoding is v
json_dumps(v) == [json |-> v]
json_loads(t) == t.json

\* the URL {scheme}://{host}/mcp/messages?session_id={session_id}
messages_endpoint(session_id) ==
  [origin |-> "scheme://host", path |-> "/mcp/messages", session_id |-> session_id]

\* bridge.py at line 34: the SSE connection is open (status 200),
\* messages_endpoint is None, stdin_queue is empty, no task has run yet
BridgeStart ==
  /\ pipe = << >>
  /\ written = 0
  /\ stdin_closed = FALSE
  /\ reader = "reading"
  /\ buffer = << >>
  /\ stdin_queue = << >>
  /\ read_log = << >>
  /\ sse_task = "running"
  /\ sse_lines = 0
  /\ bridge_event_type = "unbound"
  /\ sse_own_type = "unset"
  /\ bridge_endpoint = None
  /\ stdout = << >>
  /\ fwd = [pc |-> "get"]
  /\ posted = << >>
  /\ main_task = "running"

\* truck-loading: the rows of loading_slots and of customers; 0 is the id of
\* no row
SlotIds == {1, 2}
CustomerIds == {1, 2}
SlotRefs == SlotIds \cup {0}
CustomerRefs == CustomerIds \cup {0}
Volumes == {1, 2}
SlotStatus == {"available", "reserved", "completed", "cancelled"}
ReservationStatus == {"pending", "confirmed", "in_progress", "completed", "cancelled"}
unset == "unset"

\* two slots of volume 1, no reservation yet
TruckStart ==
  /\ slots = [i \in SlotIds |-> [status |-> "available", max_volume |-> 1]]
  /\ reservations = << >>
  /\ truck_result = "none"

\* holidays: the rows of users and of holiday_types; 0 is the id of no row
\* and the NULL of the column approved_by
UserIds == {1, 2}
UserRefs == UserIds \cup {0}
HolidayTypeRefs == {0, 1}
NULL == 0

\* holidays: no request yet
HolidayStart ==
  /\ holiday_requests = << >>
  /\ holiday_response = [status_code |-> 0]

\* MCPActivityLog.__init__ and the streams of GET /mcp/logs/stream: the deque
\* is empty, no listener is registered; k log calls lie ahead
LogStart(k) ==
  /\ logged = 0
  /\ loglimit = k
  /\ listeners = << >>
  /\ lqueue = [l \in ListenerIds |-> << >>]
  /\ sub = [l \in ListenerIds |-> [pc |-> "none", replay |-> << >>, got |-> << >>]]
  /\ logs = [called |-> FALSE]

\* the tables of the two demo applications after create_all
AppStart ==
  /\ TruckStart
  /\ HolidayStart

ServerStart(n) ==
  /\ sse_sessions = << >>
  /\ created = 0
  /\ gen = [s \in SessionIds |-> "none"]
  /\ stream = [s \in SessionIds |-> << >>]
  /\ pings = 0
  /\ disconnected = [s \in SessionIds |-> FALSE]
  /\ post = [h \in PostIds |-> [pc |-> "idle"]]
  /\ entries = << >>
  /\ capabilities = [c \in CapIds |-> [k \in DOMAIN CapabilityRows[c] \cup {"is_live"} |->
                                         IF k = "is_live" THEN c = 1 ELSE CapabilityRows[c][k]]]
  /\ connections = {1}
  /\ toggles = 0
  /\ http = [n |-> 0]
  /\ enqueued = [s \in SessionIds |-> << >>]
  /\ limit = n
  /\ BridgeStart
  /\ AppStart

InitWith(n) == ServerStart(n) /\ LogStart(MaxLogged)

Init == InitWith(MaxRequests)

\* the same start with enough log calls ahead to fill the deque and overflow it
InitRing == ServerStart(MaxRequests) /\ LogStart(max_entries + MaxOverflow)

\* ------------------------------------------------------------------------
\* GET /mcp/sse
\* ------------------------------------------------------------------------
Registered(s) == s \in DOMAIN sse_sessions

\* sse_sessions[session_id] = v
DictSet(d, k, v) == [x \in DOMAIN d \cup {k} |-> IF x = k THEN v ELSE d[x]]
\* del sse_sessions[session_id]
DictDel(d, k) == [x \in DOMAIN d \ {k} |-> d[x]]

Yield(s, event) == stream' = [stream EXCEPT ![s] = Append(@, event)]

\* mcp_sse up to its return: a fresh id, an empty queue registered under it,
\* the connect logged, the generator created but not yet iterated.
mcp_sse ==
  /\ Requests < limit
  /\ LET session_id == created + 1
     IN /\ created' = session_id
        /\ sse_sessions' = DictSet(sse_sessions, session_id, << >>)
        /\ entries' = log_all(entries, << LogEntry("sse_connect", session_id) >>)
        /\ gen' = [gen EXCEPT ![session_id] = "created"]
  /\ UNCHANGED << stream, pings, disconnected, post, dbVars, http, enqueued, limit, bridgeVars, logVars, appVars >>

\* the finally block of event_generator
Finally(s) ==
  /\ entries' = log_all(entries, << LogEntry("sse_disconnect", s) >>)
  /\ sse_sessions' = IF Registered(s) THEN DictDel(sse_sessions, s) ELSE sse_sessions
  /\ gen' = [gen EXCEPT ![s] = "closed"]

\* YieldEndpoint of a generator that enters its loop without the endpoint event
YieldEndpoint_skipped(s) ==
  /\ gen[s] = "created"
  /\ gen' = [gen EXCEPT ![s] = "waiting"]
  /\ UNCHANGED << sse_sessions, created, stream, pings, disconnected, post, entries,
                  dbVars, http, enqueued, limit, bridgeVars, logVars, appVars >>

\* first iteration of event_generator: the endpoint event is yielded, and
\* when the generator is resumed it enters the loop and waits on the queue.
\* (queued is history: the length of the queue at that moment.)
YieldEndpoint(s) ==
  /\ gen[s] = "created"
  /\ Yield(s, [event |-> "endpoint", data |-> messages_endpoint(s),
               queued |-> Len(sse_sessions[s])])
  /\ gen' = [gen EXCEPT ![s] = "waiting"]
  /\ UNCHANGED << sse_sessions, created, pings, disconnected, post, entries, dbVars,
                  http, enqueued, limit, bridgeVars, logVars, appVars >>

\* YieldMessage of a loop that takes the message off the queue and yields
\* nothing
YieldMessage_dropped(s) ==
  /\ gen[s] = "waiting"
  /\ sse_sessions[s] # << >>
  /\ sse_sessions' = [sse_sessions EXCEPT ![s] = Tail(@)]
  /\ gen' = [gen EXCEPT ![s] = "yield_message"]
  /\ UNCHANGED << created, stream, pings, disconnected, post, entries, dbVars, http,
                  enqueued, limit, bridgeVars, logVars, appVars >>

\* message_queue.get() returns: yield the message event
\* (req is history: the request the envelope answers.)
YieldMessage(s) ==
  /\ gen[s] = "waiting"
  /\ sse_sessions[s] # << >>
  /\ Yield(s, [event |-> "message", data |-> json_dumps(Head(sse_sessions[s]).envelope),
               req |-> Head(sse_sessions[s]).req])
  /\ sse_sessions' = [sse_sessions EXCEPT ![s] = Tail(@)]
  /\ gen' = [gen EXCEPT ![s] = "yield_message"]
  /\ UNCHANGED << created, pings, disconnected, post, entries, dbVars, http, enqueued,
                  limit, bridgeVars, logVars, appVars >>

\* YieldPing of a loop that ends the connection after a keepalive
YieldPing_closes(s) ==
  /\ gen[s] = "waiting"
  /\ sse_sessions[s] = << >>
  /\ Requests < limit
  /\ pings' = pings + 1
  /\ stream' = [stream EXCEPT ![s] = Append(@, [event |-> "ping", data |-> ""])]
  /\ gen' = [gen EXCEPT ![s] = "closed"]
  /\ sse_sessions' = DictDel(sse_sessions, s)
  /\ UNCHANGED << created, disconnected, post, entries, dbVars, http, enqueued, limit, bridgeVars, logVars, appVars >>

\* asyncio.TimeoutError after 30 s on an empty queue: a ping is yielded,
\* and when the generator is resumed it continues with the next wait
YieldPing(s) ==
  /\ gen[s] = "waiting"
  /\ sse_sessions[s] = << >>
  /\ Requests < limit
  /\ pings' = pings + 1
  /\ Yield(s, [event |-> "ping", data |-> ""])
  /\ UNCHANGED << sse_sessions, created, gen, disconnected, post, entries, dbVars, http,
                  enqueued, limit, bridgeVars, logVars, appVars >>

\* resumed after a message event: if await request.is_disconnected(): break
CheckDisconnected(s) ==
  /\ gen[s] = "yield_message"
  /\ IF disconnected[s]
     THEN Finally(s)
     ELSE /\ gen' = [gen EXCEPT ![s] = "waiting"]
          /\ UNCHANGED << sse_sessions, entries >>
  /\ UNCHANGED << created, stream, pings, disconnected, post, dbVars, http, enqueued,
                  limit, bridgeVars, logVars, appVars >>

\* the client of the SSE connection goes away
ClientDisconnect(s) ==
  /\ gen[s] \in {"created", "waiting", "yield_message"}
  /\ ~disconnected[s]
  /\ disconnected' = [disconnected EXCEPT ![s] = TRUE]
  /\ UNCHANGED << sse_sessions, created, gen, stream, pings, post, entries, dbVars, http,
                  enqueued, limit, bridgeVars, logVars, appVars >>

\* The response is torn down while the generator is suspended inside its
\* try block (at a yield or at the await on the queue): CancelledError or
\* GeneratorExit is raised there and the finally block runs.
Cancel(s) ==
  /\ disconnected[s]
  /\ gen[s] \in {"waiting", "yield_message"}
  /\ Finally(s)
  /\ UNCHANGED << created, stream, pings, disconnected, post, dbVars, http, enqueued,
                  limit, bridgeVars, logVars, appVars >>

\* The response is torn down before the generator was ever iterated: the
\* try block was not entered, so no finally block runs.
Abandon(s) ==
  /\ disconnected[s]
  /\ gen[s] = "created"
  /\ gen' = [gen EXCEPT ![s] = "abandoned"]
  /\ UNCHANGED << sse_sessions, created, stream, pings, disconnected, post, entries,
                  dbVars, http, enqueued, limit, bridgeVars, logVars, appVars >>

\* ------------------------------------------------------------------------
\* POST /mcp/messages
\* ------------------------------------------------------------------------
MessageBodies ==
  { Malformed,
    NonObject,
    [raw |-> "json", value |-> [method |-> "initialize", id |-> "1"]],
    [raw |-> "json", value |-> [method |-> "resources/list", id |-> "2"]] }

\* the handler of request h ends
\* (puts, present and overlap are history: the number of items it put on a
\* queue, whether the session was registered when it resumed, and the
\* requests that were suspended in "await request.json()" at that moment.)
Done(h, status, response, puts) ==
  post' = [post EXCEPT ![h] =
             [pc |-> "done", session_id |-> post[h].session_id, body |-> post[h].body,
              status |-> status, response |-> response, puts |-> puts,
              present |-> post[h].session_id \in DOMAIN sse_sessions,
              overlap |-> {g \in PostIds \ {h} : post[g].pc = "reading"}]]

\* an unhandled exception leaves the handler
InternalServerError(h) ==
  Done(h, 500, [detail |-> "Internal Server Error"], 0)

\* QueuePut on a queue that hands out the newest item first
QueuePut_front(session_id, item) ==
  /\ sse_sessions' = [sse_sessions EXCEPT ![session_id] = << item >> \o @]
  /\ enqueued' = [enqueued EXCEPT ![session_id] = Append(@, item)]

\* QueuePut on a one-slot queue: the item replaces what was waiting
QueuePut_overwrite(session_id, item) ==
  /\ sse_sessions' = [sse_sessions EXCEPT ![session_id] = << item >>]
  /\ enqueued' = [enqueued EXCEPT ![session_id] = Append(@, item)]

\* QueuePut that puts the item on the queue of every registered session
QueuePut_broadcast(session_id, item) ==
  /\ sse_sessions' = [x \in DOMAIN sse_sessions |-> Append(sse_sessions[x], item)]
  /\ enqueued' = [x \in DOMAIN enqueued |->
                    IF x \in DOMAIN sse_sessions THEN Append(enqueued[x], item)
                    ELSE enqueued[x]]

\* await queue.put(item) on the queue of session_id
QueuePut(session_id, item) ==
  /\ sse_sessions' = [sse_sessions EXCEPT ![session_id] = Append(@, item)]
  /\ enqueued' = [enqueued EXCEPT ![session_id] = Append(@, item)]

\* PutAndReturn of a handler that answers the POST and pushes nothing
PutAndReturn_no_put(h, session_id, envelope, returned) ==
  IF session_id \in DOMAIN sse_sessions
  THEN /\ Done(h, 200, returned, 0)
       /\ UNCHANGED << sse_sessions, enqueued >>
  ELSE /\ InternalServerError(h)
       /\ UNCHANGED << sse_sessions, enqueued >>

\* await sse_sessions[session_id].put(envelope), then return JSONResponse(returned)
PutAndReturn(h, session_id, envelope, returned) ==
  IF session_id \in DOMAIN sse_sessions
  THEN /\ QueuePut(session_id, [req |-> h, envelope |-> envelope])
       /\ Done(h, 200, returned, 1)
  ELSE \* KeyError: sse_sessions[session_id]
       /\ InternalServerError(h)
       /\ UNCHANGED << sse_sessions, enqueued >>

\* session_not_found of a handler that accepts every session id
session_not_found_never(session_id) == FALSE

\* if session_id not in sse_sessions
session_not_found(session_id) == session_id \notin DOMAIN sse_sessions

\* mcp_messages up to "await request.json()": the session check
mcp_messages(h, session_id, body) ==
  /\ Requests < limit
  /\ post[h].pc = "idle"
  /\ \A g \in PostIds : g < h => post[g].pc # "idle"
  /\ IF session_not_found(session_id)
     THEN /\ entries' = log_all(entries, << LogEntry("error", session_id) >>)
          /\ post' = [post EXCEPT ![h] =
                        [pc |-> "done", session_id |-> session_id, body |-> body,
                         status |-> 404,
                         response |-> [detail |-> "Session not found. Connect to /mcp/sse first."],
                         puts |-> 0, present |-> FALSE, overlap |-> {}]]
     ELSE /\ post' = [post EXCEPT ![h] =
                        [pc |-> "reading", session_id |-> session_id, body |-> body]]
          /\ UNCHANGED entries
  /\ UNCHANGED << sseVars, dbVars, http, limit, bridgeVars, logVars, appVars >>

\* mcp_messages from the return of "await request.json()" to its end
mcp_messages_body(h, queryOk) ==
  /\ post[h].pc = "reading"
  /\ LET session_id == post[h].session_id
         body == post[h].body
     IN IF body.raw = "malformed"
        THEN /\ entries' = log_all(entries, << LogEntry("error", session_id) >>)
             /\ PutAndReturn(h, session_id, ParseError, ParseErrorAck)
        ELSE IF ~IsDict(body.value)
        THEN \* AttributeError: body.get
             /\ InternalServerError(h)
             /\ UNCHANGED << sse_sessions, enqueued, entries >>
        ELSE LET d == Dispatch(db, body.value, queryOk)
             IN IF "raised" \in DOMAIN d
                THEN /\ entries' = log_all(entries, << LogEntry("sse_request", session_id) >>)
                     /\ InternalServerError(h)
                     /\ UNCHANGED << sse_sessions, enqueued >>
                ELSE /\ entries' = log_all(entries, << LogEntry("sse_request", session_id),
                                                       LogEntry("sse_response", session_id) >>)
                     /\ PutAndReturn(h, session_id, d.response, d.response)
  /\ UNCHANGED << created, gen, stream, pings, disconnected, dbVars, http, limit, bridgeVars, logVars, appVars >>

\* ------------------------------------------------------------------------
\* POST /mcp
\* ------------------------------------------------------------------------
Exchange(body, status, response, calls) ==
  http' = [n |-> http.n + 1, body |-> body, status |-> status,
           response |-> response, calls |-> calls]

mcp_endpoint(body, queryOk) ==
  /\ Requests < limit
  /\ IF body.raw = "malformed"
     THEN /\ entries' = log_all(entries, << LogEntryNoSession("error") >>)
          /\ Exchange(body, 200, ParseError, << >>)
     ELSE IF ~IsDict(body.value)
     THEN \* AttributeError: body.get
          /\ Exchange(body, 500, [detail |-> "Internal Server Error"], << >>)
          /\ UNCHANGED entries
     ELSE LET d == Dispatch(db, body.value, queryOk)
          IN IF "raised" \in DOMAIN d
             THEN /\ entries' = log_all(entries, << LogEntryNoSession("request") >>)
                  /\ Exchange(body, 500, [detail |-> "Internal Server Error"], d.calls)
             ELSE /\ entries' = log_all(entries, << LogEntryNoSession("request"),
                                                    LogEntryNoSession("response") >>)
                  /\ Exchange(body, 200, d.response, d.calls)
  /\ UNCHANGED << sseVars, post, dbVars, limit, bridgeVars, logVars, appVars >>

\* ------------------------------------------------------------------------
\* crud.py
\* ------------------------------------------------------------------------
toggle_capability_live(capability_id) ==
  /\ toggles < MaxToggles
  /\ toggles' = toggles + 1
  /\ capabilities' = IF capability_id \in DOMAIN capabilities
                     THEN [capabilities EXCEPT ![capability_id].is_live = ~@]
                     ELSE capabilities
  /\ UNCHANGED << sseVars, post, entries, connections, http, limit, bridgeVars, logVars, appVars >>

\* POST /api/capabilities: the route checks the connection and the name,
\* crud.create_capability inserts the row; is_live takes the column default
create_capability(capability) ==
  LET ids == DOMAIN capabilities
      id == IF ids = {} THEN 1 ELSE (CHOOSE m \in ids : \A c \in ids : c <= m) + 1
  IN /\ id <= MaxCapId
     /\ capability.connection_id \in connections
     /\ \A c \in ids : capabilities[c].name # capability.name
     /\ capabilities' =
          [c \in ids \cup {id} |->
             IF c = id
             THEN [k \in DOMAIN capability \cup {"is_live"} |->
                     IF k = "is_live" THEN FALSE ELSE capability[k]]
             ELSE capabilities[c]]
     /\ UNCHANGED << sseVars, post, entries, connections, toggles, http, limit, bridgeVars, logVars, appVars >>

delete_capability(capability_id) ==
  /\ capability_id \in DOMAIN capabilities
  /\ capabilities' = [c \in DOMAIN capabilities \ {capability_id} |-> capabilities[c]]
  /\ UNCHANGED << sseVars, post, entries, connections, toggles, http, limit, bridgeVars, logVars, appVars >>

\* ------------------------------------------------------------------------
\* mcp-bridge/bridge.py
\* ------------------------------------------------------------------------
\* The text of message m as the local peer writes it: a sequence of bytes,
\* each with its message, its position and its kind.  Every second message
\* holds a character that is encoded in two bytes (lead, cont).
MessageText(m) ==
  IF m % 2 = 0
  THEN << [m |-> m, i |-> 1, kind |-> "ascii"], [m |-> m, i |-> 2, kind |-> "lead"],
          [m |-> m, i |-> 3, kind |-> "cont"], [m |-> m, i |-> 4, kind |-> "ascii"] >>
  ELSE << [m |-> m, i |-> 1, kind |-> "ascii"], [m |-> m, i |-> 2, kind |-> "ascii"] >>

\* chunk.decode('utf-8') raises UnicodeDecodeError: the chunk starts inside
\* a character or ends inside one
DecodeError(chunk) ==
  \/ chunk[1].kind = "cont"
  \/ chunk[Len(chunk)].kind = "lead"

RECURSIVE raw_decode_loop(_)
\* the loop "while buffer" of read_stdin: the messages that
\* json.JSONDecoder().raw_decode finds complete at the head of the buffer,
\* and what is left of the buffer when it raises JSONDecodeError
raw_decode_loop(buf) ==
  IF buf = << >> THEN [msgs |-> << >>, rest |-> << >>]
  ELSE LET n == Len(MessageText(buf[1].m))
       IN IF buf[1].i = 1 /\ Len(buf) >= n
          THEN LET r == raw_decode_loop(SubSeq(buf, n + 1, Len(buf)))
               IN [msgs |-> << buf[1].m >> \o r.msgs, rest |-> r.rest]
          ELSE [msgs |-> << >>, rest |-> buf]

\* the local peer writes its next message to the stdin of the bridge
StdinWrite ==
  /\ main_task = "running"
  /\ ~stdin_closed
  /\ written < MaxStdin
  /\ written' = written + 1
  /\ pipe' = pipe \o MessageText(written + 1)
  /\ UNCHANGED << serverVars, logVars, appVars, stdin_closed, reader, buffer, stdin_queue, read_log,
                  sse_task, sse_lines, bridge_event_type, sse_own_type, bridge_endpoint, stdout, fwd, posted,
                  main_task >>

\* the local peer closes the stdin of the bridge
StdinClose ==
  /\ main_task = "running"
  /\ ~stdin_closed
  /\ stdin_closed' = TRUE
  /\ UNCHANGED << serverVars, logVars, appVars, pipe, written, reader, buffer, stdin_queue, read_log,
                  sse_task, sse_lines, bridge_event_type, sse_own_type, bridge_endpoint, stdout, fwd, posted,
                  main_task >>

\* read_stdin: reader.read(4096) returns the first k bytes of the pipe; they
\* are decoded and added to the buffer, and every complete message at the
\* head of the buffer is put on stdin_queue.  A chunk that does not decode
\* ends the task (except Exception: break).
read_stdin(k) ==
  /\ main_task = "running"
  /\ reader = "reading"
  /\ k \in 1..Len(pipe)
  /\ pipe' = SubSeq(pipe, k + 1, Len(pipe))
  /\ LET chunk == SubSeq(pipe, 1, k)
         r == raw_decode_loop(buffer \o chunk)
     IN IF DecodeError(chunk)
        THEN /\ reader' = "error"
             /\ UNCHANGED << buffer, stdin_queue, read_log >>
        ELSE /\ buffer' = r.rest
             /\ stdin_queue' = stdin_queue \o r.msgs
             /\ read_log' = read_log \o r.msgs
             /\ UNCHANGED reader
  /\ UNCHANGED << serverVars, logVars, appVars, written, stdin_closed, sse_task, sse_lines, bridge_event_type, sse_own_type,
                  bridge_endpoint, stdout, fwd, posted, main_task >>

\* read_stdin: reader.read returns b"" at end of input, the task returns
read_stdin_eof ==
  /\ main_task = "running"
  /\ reader = "reading"
  /\ pipe = << >>
  /\ stdin_closed
  /\ reader' = "eof"
  /\ UNCHANGED << serverVars, logVars, appVars, pipe, written, stdin_closed, buffer, stdin_queue, read_log,
                  sse_task, sse_lines, bridge_event_type, sse_own_type, bridge_endpoint, stdout, fwd, posted,
                  main_task >>

\* The lines the server sends, stripped: "event:" and "data:" lines with
\* their value, and the empty line that ends an event.
SseLines ==
  { [field |-> "event", value |-> "endpoint"],
    [field |-> "event", value |-> "message"],
    [field |-> "event", value |-> "ping"],
    [field |-> "data", value |-> "http://host/mcp/messages?session_id=1"],
    [field |-> "data", value |-> "{\"jsonrpc\": \"2.0\"}"],
    [field |-> "data", value |-> ""],
    [field |-> "", value |-> ""] }

\* process_sse: one line of sse_response.content.  A data line read while
\* event_type was never assigned raises UnboundLocalError: the task ends,
\* asyncio.gather raises in main and the bridge exits.
process_sse(line) ==
  /\ main_task = "running"
  /\ sse_task = "running"
  /\ sse_lines < MaxSseLines
  /\ sse_lines' = sse_lines + 1
  /\ sse_own_type' = IF line.field = "event" THEN line.value
                     ELSE IF line.field = "data" THEN sse_own_type
                     ELSE "unset"
  /\ IF line.field = "event"
     THEN /\ bridge_event_type' = line.value
          /\ UNCHANGED << bridge_endpoint, stdout, sse_task, main_task >>
     ELSE IF line.field = "data"
     THEN IF bridge_event_type = "unbound"
          THEN /\ sse_task' = "raised"
               /\ main_task' = "exited"
               /\ UNCHANGED << bridge_event_type, bridge_endpoint, stdout >>
          ELSE IF bridge_event_type = "endpoint"
          THEN /\ bridge_endpoint' = line.value
               /\ UNCHANGED << bridge_event_type, stdout, sse_task, main_task >>
          ELSE IF bridge_event_type = "message" /\ line.value # ""
          THEN /\ stdout' = Append(stdout, line.value)
               /\ UNCHANGED << bridge_event_type, bridge_endpoint, sse_task, main_task >>
          ELSE UNCHANGED << bridge_event_type, bridge_endpoint, stdout, sse_task, main_task >>
     ELSE UNCHANGED << bridge_event_type, bridge_endpoint, stdout, sse_task, main_task >>
  /\ UNCHANGED << serverVars, logVars, appVars, pipe, written, stdin_closed, reader, buffer, stdin_queue,
                  read_log, fwd, posted >>

\* process_sse: the server ends the stream, "async for" ends, the task returns
process_sse_end ==
  /\ main_task = "running"
  /\ sse_task = "running"
  /\ sse_task' = "done"
  /\ UNCHANGED << serverVars, logVars, appVars, pipe, written, stdin_closed, reader, buffer, stdin_queue,
                  read_log, sse_lines, bridge_event_type, sse_own_type, bridge_endpoint, stdout, fwd, posted,
                  main_task >>

\* forward_messages: msg = await stdin_queue.get()
\* (early is history: the endpoint was not known when the message was taken)
forward_get ==
  /\ main_task = "running"
  /\ fwd.pc = "get"
  /\ stdin_queue # << >>
  /\ fwd' = [pc |-> "hold", msg |-> Head(stdin_queue), early |-> bridge_endpoint = None]
  /\ stdin_queue' = Tail(stdin_queue)
  /\ UNCHANGED << serverVars, logVars, appVars, pipe, written, stdin_closed, reader, buffer, read_log,
                  sse_task, sse_lines, bridge_event_type, sse_own_type, bridge_endpoint, stdout, posted,
                  main_task >>

\* forward_post of a forwarder that does not wait for the endpoint
forward_post_no_wait ==
  /\ main_task = "running"
  /\ fwd.pc = "hold"
  /\ posted' = Append(posted, [url |-> bridge_endpoint, msg |-> fwd.msg, early |-> fwd.early])
  /\ fwd' = [pc |-> "get"]
  /\ UNCHANGED << serverVars, logVars, appVars, pipe, written, stdin_closed, reader, buffer, stdin_queue,
                  read_log, sse_task, sse_lines, bridge_event_type, sse_own_type, bridge_endpoint, stdout,
                  main_task >>

\* forward_messages: the loop "while messages_endpoint is None" is left, the
\* message is POSTed to the endpoint; the status of the response and an
\* exception of the POST are printed to stderr, and the loop goes on
forward_post ==
  /\ main_task = "running"
  /\ fwd.pc = "hold"
  /\ bridge_endpoint # None
  /\ posted' = Append(posted, [url |-> bridge_endpoint, msg |-> fwd.msg, early |-> fwd.early])
  /\ fwd' = [pc |-> "get"]
  /\ UNCHANGED << serverVars, logVars, appVars, pipe, written, stdin_closed, reader, buffer, stdin_queue,
                  read_log, sse_task, sse_lines, bridge_event_type, sse_own_type, bridge_endpoint, stdout,
                  main_task >>

\* ------------------------------------------------------------------------
\* The activity log and its streams (GET /mcp/logs, GET /mcp/logs/stream)
\* ------------------------------------------------------------------------
otherServerVars == << sseVars, post, dbVars, http, limit >>

\* MCPActivityLog.log, called by any handler: the entry is appended to the
\* deque and offered to every registered listener.  (The handlers above call
\* it through log_all; in the behaviours they take part in no listener is
\* registered, so its loop over the listeners has nothing to do.)
log ==
  /\ logged < loglimit
  /\ logged' = logged + 1
  /\ entries' = deque_append(entries, Entry(logged + 1))
  /\ lqueue' = [l \in ListenerIds |->
                  IF \E i \in 1..Len(listeners) : listeners[i] = l
                    THEN listener_put(lqueue[l], Entry(logged + 1))
                    ELSE lqueue[l]]
  /\ UNCHANGED << otherServerVars, bridgeVars, appVars, loglimit, listeners, sub, logs >>

\* GET /mcp/logs/stream up to its return: add_listener registers a new queue;
\* event_generator has not run yet
stream_mcp_logs(l) ==
  /\ sub[l].pc = "none"
  /\ \A k \in ListenerIds : k < l => sub[k].pc # "none"
  /\ listeners' = Append(listeners, l)
  /\ lqueue' = [lqueue EXCEPT ![l] = << >>]
  /\ sub' = [sub EXCEPT ![l].pc = "created"]
  /\ UNCHANGED << otherServerVars, entries, bridgeVars, appVars, logged, loglimit, logs >>

\* event_generator starts: get_recent(20) copies the entries to replay
LogStreamStart(l) ==
  /\ sub[l].pc = "created"
  /\ sub' = [sub EXCEPT ![l].pc = "streaming",
                        ![l].replay = get_recent(entries, replay_limit)]
  /\ UNCHANGED << otherServerVars, entries, bridgeVars, appVars, logged, loglimit, listeners,
                  lqueue, logs >>

\* one yield of the replay loop
LogStreamReplay(l) ==
  /\ sub[l].pc = "streaming"
  /\ sub[l].replay # << >>
  /\ sub' = [sub EXCEPT ![l].replay = Tail(@),
                        ![l].got = Append(@, [event |-> "log",
                                              data |-> json_dumps(Head(sub[l].replay))])]
  /\ UNCHANGED << otherServerVars, entries, bridgeVars, appVars, logged, loglimit, listeners,
                  lqueue, logs >>

\* one round of the live loop in which queue.get() returns an entry (a round
\* that times out yields a ping and changes nothing)
LogStreamLive(l) ==
  /\ sub[l].pc = "streaming"
  /\ sub[l].replay = << >>
  /\ lqueue[l] # << >>
  /\ lqueue' = [lqueue EXCEPT ![l] = Tail(@)]
  /\ sub' = [sub EXCEPT ![l].got = Append(@, [event |-> "log",
                                              data |-> json_dumps(Head(lqueue[l]))])]
  /\ UNCHANGED << otherServerVars, entries, bridgeVars, appVars, logged, loglimit, listeners,
                  logs >>

RECURSIVE remove(_, _)
\* list.remove: the sequence without the first occurrence of x
remove(seq, x) ==
  IF seq = << >> THEN << >>
  ELSE IF Head(seq) = x THEN Tail(seq)
  ELSE << Head(seq) >> \o remove(Tail(seq), x)

\* the stream ends (the client is gone, or the response is cancelled at a
\* yield): the finally clause removes the listener
LogStreamClose(l) ==
  /\ sub[l].pc = "streaming"
  /\ listeners' = remove(listeners, l)
  /\ sub' = [sub EXCEPT ![l].pc = "closed"]
  /\ UNCHANGED << otherServerVars, entries, bridgeVars, appVars, logged, loglimit, lqueue, logs >>

\* GET /mcp/logs?limit=...
get_mcp_logs(n) ==
  /\ logs' = [called |-> TRUE, limit |-> n, logs |-> get_recent(entries, n),
              active_sessions |-> Cardinality(DOMAIN sse_sessions),
              session_ids |-> DOMAIN sse_sessions]
  /\ UNCHANGED << otherServerVars, entries, bridgeVars, appVars, logged, loglimit, listeners,
                  lqueue, sub >>

\* ------------------------------------------------------------------------
\* truck-loading/backend/crud.py
\* ------------------------------------------------------------------------
notTruckVars == << serverVars, bridgeVars, logVars, holiday_requests, holiday_response >>

ReservationIds == 1..Len(reservations)

\* crud.create_reservation: every ValueError leaves the tables as they are
create_reservation(slot_id, customer_id, requested_volume) ==
  /\ Len(reservations) < MaxReservations
  /\ IF slot_id \notin SlotIds
       THEN /\ truck_result' = "ValueError: Loading slot not found"
            /\ UNCHANGED << slots, reservations >>
     ELSE IF slots[slot_id].status # "available"
       THEN /\ truck_result' = "ValueError: Loading slot is not available"
            /\ UNCHANGED << slots, reservations >>
     ELSE IF customer_id \notin CustomerIds
       THEN /\ truck_result' = "ValueError: Customer not found"
            /\ UNCHANGED << slots, reservations >>
     ELSE IF requested_volume > slots[slot_id].max_volume
       THEN /\ truck_result' = "ValueError: Requested volume exceeds slot maximum"
            /\ UNCHANGED << slots, reservations >>
     ELSE IF \E i \in ReservationIds : /\ reservations[i].slot_id = slot_id
                                       /\ reservations[i].customer_id = customer_id
                                       /\ reservations[i].status # "cancelled"
       THEN /\ truck_result' = "ValueError: Customer already has a reservation for this slot"
            /\ UNCHANGED << slots, reservations >>
     ELSE /\ reservations' = Append(reservations,
                                    [slot_id |-> slot_id, customer_id |-> customer_id,
                                     requested_volume |-> requested_volume,
                                     status |-> "pending"])
          /\ slots' = [slots EXCEPT ![slot_id].status = "reserved"]
          /\ truck_result' = "created"
  /\ UNCHANGED notTruckVars

\* crud.update_reservation with a ReservationUpdate that sets status, or nothing
update_reservation(reservation_id, status) ==
  /\ IF reservation_id \notin ReservationIds
       THEN /\ truck_result' = "None"
            /\ UNCHANGED << slots, reservations >>
       ELSE /\ slots' = IF status = "cancelled"
                          THEN [slots EXCEPT ![reservations[reservation_id].slot_id].status =
                                               "available"]
                        ELSE IF status = "completed"
                          THEN [slots EXCEPT ![reservations[reservation_id].slot_id].status =
                                               "completed"]
                        ELSE slots
            /\ reservations' = IF status = unset THEN reservations
                               ELSE [reservations EXCEPT ![reservation_id].status = status]
            /\ truck_result' = "updated"
  /\ UNCHANGED notTruckVars

\* crud.update_slot with a LoadingSlotUpdate that sets status, or nothing
update_slot(slot_id, status) ==
  /\ IF slot_id \notin SlotIds
       THEN /\ truck_result' = "None"
            /\ UNCHANGED slots
       ELSE /\ slots' = IF status = unset THEN slots
                        ELSE [slots EXCEPT ![slot_id].status = status]
            /\ truck_result' = "updated"
  /\ UNCHANGED << reservations, notTruckVars >>

\* ------------------------------------------------------------------------
\* holidays/backend: the requests and their approval
\* ------------------------------------------------------------------------
notHolidayVars == << serverVars, bridgeVars, logVars, slots, reservations, truck_result >>

HolidayRequestIds == 1..Len(holiday_requests)

\* crud.get_holiday_request: the row, or None
get_holiday_request(rows, request_id) ==
  IF request_id \in 1..Len(rows) THEN rows[request_id] ELSE NoneType

\* approve_holiday_request and reject_holiday_request, which differ in the
\* status they write: the table afterwards and the value returned.  updated_at
\* counts the writes of the row.
decide_holiday_request(rows, request_id, approver_id, status) ==
  IF request_id \in 1..Len(rows) /\ rows[request_id].status = "pending"
    THEN LET row == [rows[request_id] EXCEPT !.status = status,
                                            !.approved_by = approver_id,
                                            !.updated_at = @ + 1]
         IN [rows |-> [rows EXCEPT ![request_id] = row], returned |-> row]
    ELSE [rows |-> rows, returned |-> get_holiday_request(rows, request_id)]

approve_holiday_request(rows, request_id, approver_id) ==
  decide_holiday_request(rows, request_id, approver_id, "approved")

reject_holiday_request(rows, request_id, approver_id) ==
  decide_holiday_request(rows, request_id, approver_id, "rejected")

NotFoundOrProcessed ==
  [status_code |-> 404, detail |-> "Holiday request not found or already processed"]

\* the endpoint around either crud call: `if not request` is true of None only
decision_response(returned) ==
  IF returned = NoneType THEN NotFoundOrProcessed
  ELSE [status_code |-> 200, body |-> returned]

\* POST /api/requests/{request_id}/approve
approve_request(request_id, approver_id) ==
  LET r == approve_holiday_request(holiday_requests, request_id, approver_id) IN
    /\ holiday_requests' = r.rows
    /\ holiday_response' = decision_response(r.returned)
    /\ UNCHANGED notHolidayVars

\* POST /api/requests/{request_id}/reject
reject_request(request_id, approver_id) ==
  LET r == reject_holiday_request(holiday_requests, request_id, approver_id) IN
    /\ holiday_requests' = r.rows
    /\ holiday_response' = decision_response(r.returned)
    /\ UNCHANGED notHolidayVars

\* POST /api/requests
create_holiday_request(user_id, holiday_type_id, dates_in_order) ==
  /\ Len(holiday_requests) < MaxHolidayRequests
  /\ IF user_id \notin UserIds
       THEN /\ holiday_response' = [status_code |-> 404, detail |-> "User not found"]
            /\ UNCHANGED holiday_requests
     ELSE IF holiday_type_id = 0
       THEN /\ holiday_response' = [status_code |-> 404, detail |-> "Holiday type not found"]
            /\ UNCHANGED holiday_requests
     ELSE IF ~dates_in_order
       THEN /\ holiday_response' = [status_code |-> 400,
                                    detail |-> "End date must be after start date"]
            /\ UNCHANGED holiday_requests
     ELSE LET row == [user_id |-> user_id, status |-> "pending", approved_by |-> NULL,
                      updated_at |-> 0]
          IN /\ holiday_requests' = Append(holiday_requests, row)
             /\ holiday_response' = [status_code |-> 201, body |-> row]
  /\ UNCHANGED notHolidayVars

\* ------------------------------------------------------------------------
\* Specifications
\* ------------------------------------------------------------------------
Next ==
  \/ mcp_sse
  \/ \E s \in SessionIds : YieldEndpoint(s)
  \/ \E s \in SessionIds : YieldMessage(s)
  \/ \E s \in SessionIds : YieldPing(s)
  \/ \E s \in SessionIds : CheckDisconnected(s)
  \/ \E s \in SessionIds : ClientDisconnect(s)
  \/ \E s \in SessionIds : Cancel(s)
  \/ \E s \in SessionIds : Abandon(s)
  \/ \E h \in PostIds, s \in SessionIds, b \in MessageBodies : mcp_messages(h, s, b)
  \/ \E h \in PostIds, q \in BOOLEAN : mcp_messages_body(h, q)
  \/ \E b \in MessageBodies, q \in BOOLEAN : mcp_endpoint(b, q)

Spec == Init /\ [][Next]_vars

\* The dispatcher on its own: POST /mcp with every body of Bodies, against a
\* capabilities table whose live flags change.
NextRpc ==
  \/ \E b \in Bodies, q \in BOOLEAN : mcp_endpoint(b, q)
  \/ \E c \in CapIds : toggle_capability_live(c)

RpcSpec == Init /\ [][NextRpc]_vars

\* The dispatcher while capabilities are created, deleted and toggled
NextCrud ==
  \/ \E b \in CrudBodies, q \in BOOLEAN : mcp_endpoint(b, q)
  \/ \E c \in 1..MaxCapId : toggle_capability_live(c)
  \/ \E capability \in NewCapabilities : create_capability(capability)
  \/ \E c \in 1..MaxCapId : delete_capability(c)

CrudSpec == Init /\ [][NextCrud]_vars

\* The transports under the scheduling of the event loop: a task that is
\* ready to run is run.  The generator of a connection is iterated, takes
\* the message that is on its queue and is resumed after a yield; a POST
\* handler whose body has arrived goes on.
InitLive == InitWith(MaxLiveRequests)

Fairness ==
  /\ \A s \in SessionIds : WF_vars(YieldEndpoint(s))
  /\ \A s \in SessionIds : WF_vars(YieldMessage(s))
  /\ \A s \in SessionIds : WF_vars(CheckDisconnected(s))
  /\ \A h \in PostIds : WF_vars(\E q \in BOOLEAN : mcp_messages_body(h, q))

FairSpec == InitLive /\ [][Next]_vars /\ Fairness

\* The bridge: the local peer writes to its stdin and closes it, the server
\* sends lines on the SSE stream and ends it, and the three tasks of
\* asyncio.gather run.  A task of the bridge that can take a step takes it.
NextBridge ==
  \/ StdinWrite
  \/ StdinClose
  \/ \E k \in 1..Len(pipe) : read_stdin(k)
  \/ read_stdin_eof
  \/ \E line \in SseLines : process_sse(line)
  \/ process_sse_end
  \/ forward_get
  \/ forward_post

BridgeFairness ==
  /\ WF_vars(\E k \in 1..Len(pipe) : read_stdin(k))
  /\ WF_vars(read_stdin_eof)
  /\ WF_vars(forward_get)
  /\ WF_vars(forward_post)

BridgeSpec == Init /\ [][NextBridge]_vars /\ BridgeFairness

\* The activity log with its subscribers and the reader of GET /mcp/logs
NextLog ==
  \/ log
  \/ \E l \in ListenerIds : stream_mcp_logs(l)
  \/ \E l \in ListenerIds : LogStreamStart(l)
  \/ \E l \in ListenerIds : LogStreamReplay(l)
  \/ \E l \in ListenerIds : LogStreamLive(l)
  \/ \E l \in ListenerIds : LogStreamClose(l)
  \/ \E n \in Limits : get_mcp_logs(n)

LogSpec == Init /\ [][NextLog]_vars

\* The activity log filled beyond its capacity, with listeners that register
\* and never read
NextRing ==
  \/ log
  \/ \E l \in ListenerIds : stream_mcp_logs(l)

RingSpec == InitRing /\ [][NextRing]_vars

\* The reservations of the truck-loading application
NextTruck ==
  \/ \E slot_id \in SlotRefs, customer_id \in CustomerRefs, requested_volume \in Volumes :
       create_reservation(slot_id, customer_id, requested_volume)
  \/ \E reservation_id \in 0..MaxReservations, status \in ReservationStatus \cup {unset} :
       update_reservation(reservation_id, status)
  \/ \E slot_id \in SlotRefs, status \in SlotStatus \cup {unset} : update_slot(slot_id, status)

TruckSpec == Init /\ [][NextTruck]_vars

\* The holiday requests and the two decisions on them
NextHoliday ==
  \/ \E user_id \in UserRefs, holiday_type_id \in HolidayTypeRefs, dates_in_order \in BOOLEAN :
       create_holiday_request(user_id, holiday_type_id, dates_in_order)
  \/ \E request_id \in 0..MaxHolidayRequests, approver_id \in UserIds :
       approve_request(request_id, approver_id)
  \/ \E request_id \in 0..MaxHolidayRequests, approver_id \in UserIds :
       reject_request(request_id, approver_id)

HolidaySpec == Init /\ [][NextHoliday]_vars

\* ------------------------------------------------------------------------
\* Properties
\* ------------------------------------------------------------------------
Finished == {h \in PostIds : post[h].pc = "done"}

\* the items a stream has emitted as message events, in order
RECURSIVE Emitted(_)
Emitted(events) ==
  IF events = << >> THEN << >>
  ELSE IF Head(events).event = "message"
       THEN << [req |-> Head(events).req, envelope |-> json_loads(Head(events).data)] >>
              \o Emitted(Tail(events))
       ELSE Emitted(Tail(events))

IsPrefix(a, b) == Len(a) <= Len(b) /\ \A i \in 1..Len(a) : a[i] = b[i]

Count(seq, req) == Cardinality({i \in 1..Len(seq) : seq[i].req = req})

IsObjectBody(body) == body.raw = "json" /\ IsDict(body.value)

\* C1: a POST to /mcp/messages whose session id is not in the session map
\* is answered 404 at once and changes no queue, no session and no stream;
\* and an id is in the map only from its SSE connect to the cleanup of that
\* connection: never before the connect, never after the finally block ran.
C1_Step ==
  /\ \A h \in PostIds :
       (post[h].pc = "idle" /\ post'[h].pc # "idle"
          /\ post'[h].session_id \notin DOMAIN sse_sessions)
       => /\ post'[h].pc = "done"
          /\ post'[h].status = 404
          /\ post'[h].puts = 0
          /\ UNCHANGED << sse_sessions, created, gen, stream, enqueued, http >>
  /\ \A h \in PostIds :
       (post[h].pc = "idle" /\ post'[h].pc # "idle"
          /\ gen[post'[h].session_id] \in {"none", "closed"})
       => post'[h].pc = "done" /\ post'[h].status = 404
  /\ \A x \in SessionIds :
       x \in DOMAIN sse_sessions' => (x <= created' /\ gen'[x] \notin {"none", "closed"})

C1_UnknownSessionRejected == [][C1_Step]_vars

\* a POST was rejected before its session id existed, and another after the
\* connection that owned its id was cleaned up
C1_Witness ==
  /\ \E h \in Finished : post[h].status = 404 /\ gen[post[h].session_id] = "none"
  /\ \E h \in Finished : post[h].status = 404 /\ gen[post[h].session_id] = "closed"

\* C2: after an SSE connection has ended, at whatever point of its life the
\* client went away, its session id is no longer in sse_sessions.
C2_NoSessionLeak ==
  \A s \in SessionIds : gen[s] \in {"closed", "abandoned"} => ~Registered(s)

\* C3: the message events of a session's stream come in the order in which
\* their envelopes were put on the session's queue.
C3_FifoOrder ==
  \A s \in SessionIds : IsPrefix(Emitted(stream[s]), enqueued[s])

\* two envelopes of different requests were emitted on one stream, in the
\* order in which they were enqueued
C3_Witness ==
  \E s \in SessionIds : \E i, k \in 1..Len(stream[s]) :
    /\ i < k
    /\ stream[s][i].event = "message"
    /\ stream[s][k].event = "message"
    /\ stream[s][i].req # stream[s][k].req
    /\ Len(enqueued[s]) = 2
    /\ enqueued[s][1].req = stream[s][i].req

\* C4: the first event of every stream is the endpoint event, whose URL
\* contains the session id of the connection; every later event is a
\* message or a ping.
C4_EndpointFirst ==
  \A s \in SessionIds : \A i \in 1..Len(stream[s]) :
    /\ (i = 1) <=> (stream[s][i].event = "endpoint")
    /\ i = 1 => (stream[s][1].data.path = "/mcp/messages"
                   /\ stream[s][1].data.session_id = s)
    /\ i > 1 => stream[s][i].event \in {"message", "ping"}

\* an envelope was on the queue before the generator produced anything, and
\* the stream still started with the endpoint event, the envelope after it
C4_Witness ==
  \E s \in SessionIds :
    /\ Len(stream[s]) >= 2
    /\ stream[s][1].event = "endpoint"
    /\ stream[s][1].queued > 0
    /\ stream[s][2].event = "message"

\* C5: a POST to /mcp/messages with a JSON object as body, whose session is
\* registered when the handler enqueues, is answered 200 with the envelope
\* of the dispatcher (same id as the request), and that same envelope is on
\* the session's queue exactly once, and on no other queue.
C5_SameEnvelopeEnqueuedAndReturned ==
  \A h \in Finished :
    (IsObjectBody(post[h].body) /\ post[h].present) =>
      /\ post[h].status = 200
      /\ "jsonrpc" \in DOMAIN post[h].response
      /\ post[h].response.id = get(post[h].body.value, "id", None)
      /\ \E q \in BOOLEAN :
           post[h].response = handle_request(db, post[h].body.value, q)
      /\ post[h].puts = 1
      /\ Count(enqueued[post[h].session_id], h) = 1
      /\ \A i \in 1..Len(enqueued[post[h].session_id]) :
           enqueued[post[h].session_id][i].req = h
             => enqueued[post[h].session_id][i].envelope = post[h].response
      /\ \A s \in SessionIds \ {post[h].session_id} : Count(enqueued[s], h) = 0

\* a request was answered with a result envelope and another with an error
\* envelope
C5_Witness ==
  /\ \E h \in Finished : post[h].status = 200 /\ "result" \in DOMAIN post[h].response
  /\ \E h \in Finished : post[h].status = 200 /\ IsObjectBody(post[h].body)
                           /\ "error" \in DOMAIN post[h].response

\* C6: a JSON-RPC request with id i POSTed to the messages endpoint of a
\* registered session leads to a message event on that session's stream
\* whose payload is the response envelope with id i (for initialize, a
\* result with protocolVersion "2024-11-05"), unless the SSE client goes away.
Posted(h, s) ==
  /\ post[h].pc = "reading"
  /\ post[h].session_id = s
  /\ IsObjectBody(post[h].body)

Answered(h, s) ==
  /\ post[h].pc # "idle"
  /\ post[h].session_id = s
  /\ IsObjectBody(post[h].body)
  /\ \E i \in 1..Len(stream[s]) :
       /\ stream[s][i].event = "message"
       /\ stream[s][i].req = h
       /\ LET envelope == json_loads(stream[s][i].data)
          IN /\ envelope.id = get(post[h].body.value, "id", None)
             /\ get(post[h].body.value, "method", "") = "initialize"
                  => /\ "result" \in DOMAIN envelope
                     /\ envelope.result.protocolVersion = "2024-11-05"

C6_ResponseReachesStream ==
  \A h \in PostIds : \A s \in SessionIds :
    Posted(h, s) ~> (Answered(h, s) \/ disconnected[s])

\* the answer to an initialize request was emitted on the stream of a
\* client that is still connected
C6_Witness ==
  \E h \in PostIds : \E s \in SessionIds :
    /\ Answered(h, s)
    /\ get(post[h].body.value, "method", "") = "initialize"
    /\ ~disconnected[s]

\* C7: when the session closes between a POST handler's session check and
\* its enqueue step, the enqueue is dropped silently: the handler ends
\* without an error and has put nothing on any queue.
C7_DroppedSilently ==
  \A h \in Finished :
    (post[h].status # 404 /\ ~post[h].present /\ post[h].body # NonObject)
      => (post[h].status = 200 /\ post[h].puts = 0)

\* C8: the responses of concurrent POSTs to one open session are each put
\* once on that session's queue, and while the session is registered each is
\* either still on the queue or emitted once on the stream: none is lost,
\* duplicated or overwritten.
C8_ConcurrentPosts ==
  \A h \in Finished :
    post[h].status = 200 =>
      LET s == post[h].session_id
      IN /\ Count(enqueued[s], h) = 1
         /\ \A x \in SessionIds \ {s} : Count(enqueued[x], h) = 0
         /\ Count(Emitted(stream[s]), h) <= 1
         /\ Registered(s) => Count(Emitted(stream[s]), h) + Count(sse_sessions[s], h) = 1

\* two handlers were suspended on the same session at the same time, and the
\* responses of both were emitted on its stream
C8_Witness ==
  \E h \in Finished : \E g \in Finished \ {h} :
    /\ post[h].session_id = post[g].session_id
    /\ post[h].status = 200 /\ post[g].status = 200
    /\ h \in post[g].overlap
    /\ Count(Emitted(stream[post[h].session_id]), h) = 1
    /\ Count(Emitted(stream[post[h].session_id]), g) = 1

\* C9: a request whose method is a name other than initialize, tools/list
\* and tools/call, or is missing, is answered with error code -32601, and no
\* handler and no collaborator is called for it.
C9_MethodNotFound ==
  (http.n > 0 /\ IsObjectBody(http.body)
     /\ get(http.body.value, "method", "") \notin {"initialize", "tools/list", "tools/call", ListMethod})
  => /\ http.status = 200
     /\ "error" \in DOMAIN http.response
     /\ "result" \notin DOMAIN http.response
     /\ http.response.error.code = -32601
     /\ http.calls = << >>

\* a tools/call-shaped request under an unknown method name was refused
C9_Witness ==
  /\ http.n > 0
  /\ IsObjectBody(http.body)
  /\ get(http.body.value, "method", "") = "resources/list"
  /\ "params" \in DOMAIN http.body.value
  /\ http.response.error.code = -32601

\* C10 as stated: a body that is not JSON is answered with an envelope with
\* error code -32700 and id null, by POST /mcp and by POST /mcp/messages.
IsParseErrorEnvelope(r) ==
  /\ "jsonrpc" \in DOMAIN r
  /\ "error" \in DOMAIN r
  /\ r.error.code = -32700
  /\ r.id = None

C10_ParseErrorIsTheResponse ==
  /\ (http.n > 0 /\ http.body = Malformed) => IsParseErrorEnvelope(http.response)
  /\ \A h \in Finished :
       (post[h].body = Malformed /\ post[h].present) => IsParseErrorEnvelope(post[h].response)

\* C10 as amended: POST /mcp answers a body that is not JSON with the
\* envelope (code -32700, id null); POST /mcp/messages, for a session that
\* is registered when the handler enqueues, puts that envelope once on the
\* session's queue and answers the POST with the acknowledgement
\* {"status": "error", "message": "Parse error"}, which is no envelope.
C10_ParseErrorEnvelope ==
  /\ (http.n > 0 /\ http.body = Malformed)
       => (http.status = 200 /\ IsParseErrorEnvelope(http.response))
  /\ \A h \in Finished :
       (post[h].body = Malformed /\ post[h].present) =>
         /\ post[h].status = 200
         /\ post[h].response = [status |-> "error", message |-> "Parse error"]
         /\ Count(enqueued[post[h].session_id], h) = 1
         /\ \A i \in 1..Len(enqueued[post[h].session_id]) :
              enqueued[post[h].session_id][i].req = h
                => IsParseErrorEnvelope(enqueued[post[h].session_id][i].envelope)

\* both transports have answered a body that is not JSON
C10_Witness ==
  /\ http.n > 0 /\ http.body = Malformed
  /\ \E h \in Finished : post[h].body = Malformed /\ post[h].present

\* the result of the method handler that handle_request calls for request
HandlerOutcome(request, queryOk) ==
  LET method == get(request, "method", "")
      params == get(request, "params", NoneType)
  IN CASE method = "initialize" -> handle_initialize(params)
       [] method = "tools/list" -> handle_tools_list(db, params)
       [] method = "tools/call" -> handle_tools_call(db, params, queryOk)

\* C11: whatever a method handler (initialize, tools/list, tools/call)
\* raises, also for a params value that is missing or no object, the
\* dispatcher answers with an error envelope with code -32000 whose message
\* is the text of the exception; the transport sees an envelope (HTTP 200),
\* never the exception.
C11_Step ==
  (http'.n = http.n + 1 /\ IsObjectBody(http'.body)
     /\ get(http'.body.value, "method", "") \in handlers) =>
    \E q \in BOOLEAN :
      LET b == http'.body
          r == HandlerOutcome(b.value, q)
      IN /\ mcp_endpoint(b, q)
         /\ http'.status = 200
         /\ http'.response.jsonrpc = "2.0"
         /\ r.ok => /\ "result" \in DOMAIN http'.response
                    /\ "error" \notin DOMAIN http'.response
         /\ ~r.ok => /\ "error" \in DOMAIN http'.response
                     /\ "result" \notin DOMAIN http'.response
                     /\ http'.response.error.code = -32000
                     /\ http'.response.error.message = r.exc
         /\ (get(b.value, "method", "") = "tools/call"
               /\ ~IsDict(get(b.value, "params", NoneType))) => ~r.ok

C11_HandlerExceptionsCaught == [][C11_Step]_vars

\* tools/call without params was answered with the AttributeError as a
\* -32000 envelope
C11_Witness ==
  /\ http.n > 0
  /\ IsObjectBody(http.body)
  /\ get(http.body.value, "method", "") = "tools/call"
  /\ "params" \notin DOMAIN http.body.value
  /\ http.status = 200
  /\ http.response.error.code = -32000
  /\ http.response.error.message = << "'", "NoneType", "' object has no attribute 'get'" >>

\* C12: POST /mcp answers every body that decodes as JSON, an object or
\* not, and whatever its method field is, with HTTP 200 and an envelope
\* that has jsonrpc "2.0", an id and exactly one of result and error.
C12_AlwaysEnvelope ==
  (http.n > 0 /\ http.body.raw = "json") =>
     /\ http.status = 200
     /\ "jsonrpc" \in DOMAIN http.response
     /\ "id" \in DOMAIN http.response
     /\ ("result" \in DOMAIN http.response) # ("error" \in DOMAIN http.response)

\* C13: the envelope of the dispatcher has the id of the request it
\* answers, for a known and for an unknown method, for a result, a -32601
\* and a -32000; a request without id gets id null.
C13_SameId ==
  (http.n > 0 /\ IsObjectBody(http.body)
     /\ get(http.body.value, "method", "") # ListMethod) =>
     /\ http.status = 200
     /\ http.response.id = IF "id" \in DOMAIN http.body.value
                           THEN http.body.value.id ELSE None

\* a tools/list request without id was answered with a result with id null
C13_Witness ==
  /\ http.n > 0
  /\ IsObjectBody(http.body)
  /\ get(http.body.value, "method", "") = "tools/list"
  /\ "id" \notin DOMAIN http.body.value
  /\ "result" \in DOMAIN http.response
  /\ http.response.id = None

\* a POST /mcp exchange of this step, for a request of the given method
Answers(method) ==
  /\ http'.n = http.n + 1
  /\ IsObjectBody(http'.body)
  /\ get(http'.body.value, "method", "") = method

LiveIds == {c \in DOMAIN capabilities : capabilities[c].is_live}

\* C14: whatever capabilities were created, deleted and toggled before,
\* tools/list returns one tool for each capability that is live at that
\* moment and no other; nothing is kept from an earlier request.
C14_Step ==
  Answers("tools/list") =>
    /\ http'.status = 200
    /\ "result" \in DOMAIN http'.response
    /\ LET tools == http'.response.result.tools
       IN /\ Len(tools) = Cardinality(LiveIds)
          /\ \A c \in LiveIds :
               Cardinality({i \in 1..Len(tools) : tools[i].name = capabilities[c].name}) = 1
          /\ \A i \in 1..Len(tools) : \E c \in LiveIds : tools[i].name = capabilities[c].name

C14_ToolsListIsLiveSet == [][C14_Step]_vars

\* after a create and toggles, tools/list has returned the created
\* capability and not the one that was toggled off
C14_Witness ==
  /\ http.n > 0
  /\ IsObjectBody(http.body)
  /\ get(http.body.value, "method", "") = "tools/list"
  /\ 3 \in DOMAIN capabilities /\ capabilities[3].is_live
  /\ 1 \in DOMAIN capabilities /\ ~capabilities[1].is_live
  /\ "result" \in DOMAIN http.response
  /\ Len(http.response.result.tools) = 1
  /\ http.response.result.tools[1].name = "recent_orders"

\* C15: tools/call with a name that no live capability has is answered
\* with an error envelope with code -32000 whose message contains the name,
\* and neither the parameter validation nor the query is reached; this is
\* so on the first call after a live capability is toggled off.
C15_Step ==
  (/\ Answers("tools/call")
   /\ IsDict(get(http'.body.value, "params", NoneType))
   /\ "name" \in DOMAIN http'.body.value.params
   /\ \A c \in LiveIds : capabilities[c].name # http'.body.value.params.name) =>
    /\ http'.status = 200
    /\ "error" \in DOMAIN http'.response
    /\ "result" \notin DOMAIN http'.response
    /\ http'.response.error.code = -32000
    /\ \E i \in 1..Len(http'.response.error.message) :
         http'.response.error.message[i] = http'.body.value.params.name
    /\ \A i \in 1..Len(http'.calls) :
         http'.calls[i] \notin {"query_connection", "validate_parameters", "execute_query"}

C15_NotLiveNotCallable == [][C15_Step]_vars

\* the capability that is live at the start was toggled off and then called
C15_Witness ==
  /\ http.n > 0
  /\ IsObjectBody(http.body)
  /\ get(http.body.value, "method", "") = "tools/call"
  /\ http.body.value.params.name = "list_active_customers"
  /\ 1 \in DOMAIN capabilities /\ ~capabilities[1].is_live
  /\ toggles > 0
  /\ "error" \in DOMAIN http.response
  /\ http.response.error.code = -32000

\* the names of the parameters of capability c that are required, have no
\* default and are not among the arguments
OmittedRequired(c, arguments) ==
  LET ps == capabilities[c].parameters
  IN {ps[i].name : i \in {j \in 1..Len(ps) :
                            /\ get(ps[j], "required", TRUE)
                            /\ "default" \notin DOMAIN ps[j]
                            /\ ps[j].name \notin DOMAIN arguments}}

\* C16: tools/call on a live capability whose arguments omit a parameter
\* that its definitions mark required, without default, is answered with an
\* error envelope and connector.execute_query is not called, whether the
\* parameter is a placeholder of the template or not.
C16_Step ==
  (/\ Answers("tools/call")
   /\ IsDict(get(http'.body.value, "params", NoneType))
   /\ "name" \in DOMAIN http'.body.value.params
   /\ \E c \in LiveIds :
        /\ capabilities[c].name = http'.body.value.params.name
        /\ OmittedRequired(c, get(http'.body.value.params, "arguments", EmptyDict)) # {}) =>
    /\ "error" \in DOMAIN http'.response
    /\ \A i \in 1..Len(http'.calls) : http'.calls[i] # "execute_query"

C16_RequiredEnforced == [][C16_Step]_vars

\* the connection of session s emitted a keepalive in this step
Pinged(s) ==
  /\ Len(stream'[s]) = Len(stream[s]) + 1
  /\ stream'[s][Len(stream'[s])].event = "ping"

\* C17: a ping is emitted when the wait on an empty queue times out; after
\* it the generator waits again and the session is still registered, ping
\* after ping, and no queue has lost or gained an item by it.
C17_Step ==
  \A s \in SessionIds :
    Pinged(s) =>
      /\ gen[s] = "waiting" /\ sse_sessions[s] = << >>
      /\ gen'[s] = "waiting"
      /\ s \in DOMAIN sse_sessions'
      /\ sse_sessions' = sse_sessions
      /\ enqueued' = enqueued
      /\ \A i \in 1..Len(stream[s]) : stream'[s][i] = stream[s][i]

C17_PingKeepsConnection == [][C17_Step]_vars

\* a connection got two pings in a row and is still registered and waiting
C17_Witness ==
  \E s \in SessionIds :
    /\ Len(stream[s]) >= 3
    /\ stream[s][Len(stream[s])].event = "ping"
    /\ stream[s][Len(stream[s]) - 1].event = "ping"
    /\ gen[s] = "waiting"
    /\ s \in DOMAIN sse_sessions

\* C20: after each emission of the loop, a message and a ping alike, the
\* generator goes to the check of request.is_disconnected(), which ends the
\* loop and removes the session when the peer has gone.
C20_CheckAfterEveryEmission ==
  [][\A s \in SessionIds :
       (/\ Len(stream'[s]) = Len(stream[s]) + 1
        /\ stream'[s][Len(stream'[s])].event \in {"message", "ping"})
       => gen'[s] = "yield_message"]_vars

\* C18: when the stdin reader has seen the end of its input, the bridge
\* stops: main returns and with it the SSE reader and the forwarder, also
\* while the SSE stream is open and the forwarder waits on the empty queue.
C18_StopsOnEof == (reader = "eof") ~> (main_task = "exited")

\* the messages the forwarder has POSTed, in order
PostedMessages == [i \in 1..Len(posted) |-> posted[i].msg]

\* the messages the forwarder holds or will take from the queue, in order
HeldMessages ==
  (IF fwd.pc = "hold" THEN << fwd.msg >> ELSE << >>) \o stdin_queue

\* C19: nothing is POSTed while no endpoint event has been received; the
\* messages read from stdin are POSTed in the order they were read, each
\* once, and a message that is not POSTed yet is held in the queue or by the
\* forwarder; once the endpoint is known, every message read is POSTed.
C19_Safety ==
  /\ bridge_endpoint = None => posted = << >>
  /\ \A i \in 1..Len(posted) : posted[i].url # None
  /\ read_log = PostedMessages \o HeldMessages
  /\ \A i, j \in 1..Len(read_log) : i < j => read_log[i] < read_log[j]

C19_HeldThenPosted ==
  /\ []C19_Safety
  /\ \A m \in 1..MaxStdin :
       ((\E i \in 1..Len(read_log) : read_log[i] = m) /\ bridge_endpoint # None)
         ~> (\E i \in 1..Len(posted) : posted[i].msg = m)

\* two messages were read before the endpoint event arrived, the first was
\* held by the forwarder, and both were POSTed to the endpoint afterwards,
\* in the order read
C19_Witness ==
  /\ Len(posted) = 2
  /\ posted[1].early
  /\ posted[1].msg = 1 /\ posted[2].msg = 2
  /\ posted[1].url = "http://host/mcp/messages?session_id=1"
  /\ sse_lines = 2
  /\ written = 2

\* C21: the handler of a POST to /mcp/messages with a body that is not
\* JSON, on a session that is registered when it enqueues, puts one
\* parse-error envelope (code -32700, id null) on the queue of that session
\* and on no other, answers the POST with an acknowledgement that is no
\* JSON-RPC envelope, logs the error and nothing of a dispatched request,
\* and leaves every session registered.
C21_Step ==
  \A h \in PostIds :
    (/\ post[h].pc = "reading" /\ post'[h].pc = "done"
     /\ post[h].body = Malformed
     /\ post[h].session_id \in DOMAIN sse_sessions) =>
      LET s == post[h].session_id
      IN /\ sse_sessions'[s] = Append(sse_sessions[s], [req |-> h, envelope |-> ParseError])
         /\ ParseError.error.code = -32700 /\ ParseError.id = None
         /\ DOMAIN sse_sessions' = DOMAIN sse_sessions
         /\ \A x \in DOMAIN sse_sessions \ {s} : sse_sessions'[x] = sse_sessions[x]
         /\ post'[h].status = 200
         /\ post'[h].puts = 1
         /\ "jsonrpc" \notin DOMAIN post'[h].response
         /\ post'[h].response = [status |-> "error", message |-> "Parse error"]
         /\ entries' = Append(entries, LogEntry("error", s))
         /\ UNCHANGED << dbVars, http >>

C21_ParseErrorRelayed == [][C21_Step]_vars

\* a body that is not JSON was POSTed to a registered session: the envelope
\* is on its queue and the caller has the acknowledgement
C21_Witness ==
  \E h \in Finished :
    /\ post[h].body = Malformed
    /\ post[h].present
    /\ post[h].status = 200
    /\ post[h].session_id \in DOMAIN sse_sessions
    /\ \E i \in 1..Len(sse_sessions[post[h].session_id]) :
         /\ sse_sessions[post[h].session_id][i].req = h
         /\ sse_sessions[post[h].session_id][i].envelope.error.code = -32700

\* the session a queue item or a message event belongs to: the session id
\* of the POST whose handler produced it
SessionOf(item) == post[item.req].session_id

\* C26: with several sessions open, the response to a POST with session id
\* X is put on the queue of X only and emitted on the stream of X only; a
\* step of one session (a POST, an emission, a keepalive, its close) leaves
\* the queue, the registration and the stream of every other session as
\* they are.
C26_Step ==
  /\ \A h \in PostIds : \A x \in SessionIds :
       (post[h].pc = "reading" /\ post'[h].pc = "done" /\ x # post[h].session_id) =>
         /\ enqueued'[x] = enqueued[x]
         /\ stream'[x] = stream[x]
         /\ (x \in DOMAIN sse_sessions) = (x \in DOMAIN sse_sessions')
         /\ x \in DOMAIN sse_sessions => sse_sessions'[x] = sse_sessions[x]
  /\ \A s \in SessionIds : \A x \in SessionIds \ {s} :
       (stream'[s] # stream[s] \/ gen'[s] # gen[s] \/ disconnected'[s] # disconnected[s]) =>
         /\ enqueued'[x] = enqueued[x]
         /\ stream'[x] = stream[x]
         /\ (x \in DOMAIN sse_sessions) = (x \in DOMAIN sse_sessions')
         /\ x \in DOMAIN sse_sessions => sse_sessions'[x] = sse_sessions[x]
  /\ \A s \in SessionIds :
       /\ \A i \in 1..Len(enqueued'[s]) : post'[enqueued'[s][i].req].session_id = s
       /\ \A i \in 1..Len(stream'[s]) :
            stream'[s][i].event = "message" => post'[stream'[s][i].req].session_id = s

C26_SessionIsolation == [][C26_Step]_vars

\* two sessions are open, the response to a POST to the second one was
\* emitted on its stream, and the first has seen nothing but its endpoint
C26_Witness ==
  /\ 1 \in DOMAIN sse_sessions /\ 2 \in DOMAIN sse_sessions
  /\ enqueued[1] = << >>
  /\ Len(stream[1]) = 1
  /\ Len(enqueued[2]) = 1
  /\ SessionOf(enqueued[2][1]) = 2
  /\ \E i \in 1..Len(stream[2]) : stream[2][i].event = "message"

\* C24: however the bytes written to stdin are cut into chunks, inside a
\* message or inside a character, the reader goes on reading, enqueues the
\* messages in input order, each once, and when every byte written has been
\* read it has enqueued every message written and its buffer is empty.
C24_FragmentationInsensitive ==
  /\ reader # "error"
  /\ \A i \in 1..Len(read_log) : read_log[i] = i
  /\ pipe = << >> => (read_log = [i \in 1..written |-> i] /\ buffer = << >>)

\* what process_sse does with a line, by the type of the event the line
\* belongs to
C25_Expected(line) ==
  /\ main_task' = "running" /\ sse_task' = "running"
  /\ line.field = "data" =>
       CASE sse_own_type = "endpoint" ->
              bridge_endpoint' = line.value /\ stdout' = stdout
         [] sse_own_type = "message" /\ line.value # "" ->
              stdout' = Append(stdout, line.value) /\ bridge_endpoint' = bridge_endpoint
         [] OTHER -> stdout' = stdout /\ bridge_endpoint' = bridge_endpoint
  /\ line.field # "data" => (stdout' = stdout /\ bridge_endpoint' = bridge_endpoint)

\* C25: for every line the server sends, the SSE reader records the payload
\* of an endpoint event as the POST URL, prints the payload of a message
\* event once, prints nothing for a ping, and reads a data line under the
\* type that the event line of the same event gave: not under the type of
\* an earlier event, and not without a type.
C25_OwnEventType ==
  [][\A line \in SseLines : process_sse(line) => C25_Expected(line)]_vars

\* C22: the activity log is a ring buffer of capacity max_entries: after n
\* log calls it holds the most recent min(n, max_entries) entries in the order
\* they were logged, so an append to a full buffer evicted the oldest entry.
C22_RingBuffer ==
  /\ Len(entries) = (IF logged < max_entries THEN logged ELSE max_entries)
  /\ \A i \in 1..Len(entries) : entries[i] = Entry(logged - Len(entries) + i)

C22_Witness ==
  /\ logged = max_entries + 2
  /\ Len(entries) = max_entries
  /\ entries[1] = Entry(3)
  /\ entries[max_entries] = Entry(logged)

\* C23: a log call never fails because of a listener: a registered listener
\* whose queue holds listener_maxsize entries keeps its queue as it is, every
\* other registered listener gets the entry at the end of its queue, the entry
\* is appended to the ring buffer in both cases, no queue exceeds
\* listener_maxsize and every queue holds its entries in the order logged.
C23_Step ==
  logged' = logged + 1 =>
    /\ entries' # << >> /\ entries'[Len(entries')] = Entry(logged + 1)
    /\ \A i \in 1..Len(listeners) :
         LET l == listeners[i] IN
           /\ Len(lqueue'[l]) <= listener_maxsize
           /\ IF Len(lqueue[l]) = listener_maxsize
                THEN lqueue'[l] = lqueue[l]
                ELSE lqueue'[l] = Append(lqueue[l], Entry(logged + 1))
           /\ \A j \in 1..(Len(lqueue'[l]) - 1) : lqueue'[l][j].id < lqueue'[l][j + 1].id

C23_ListenersNeverBlockLog == [][C23_Step]_vars

C23_Witness ==
  /\ Len(listeners) = 2
  /\ Len(lqueue[1]) = listener_maxsize
  /\ lqueue[1][listener_maxsize].id < logged
  /\ lqueue[2] # << >>
  /\ lqueue[2][Len(lqueue[2])] = Entry(logged)
  /\ entries[Len(entries)] = Entry(logged)

\* C27: a subscriber of GET /mcp/logs/stream is sent each entry at most once:
\* no two events of its stream, replayed or live, carry the same entry.
C27_AtMostOnce ==
  \A l \in ListenerIds :
    \A i, j \in 1..Len(sub[l].got) :
      i # j => json_loads(sub[l].got[i].data).id # json_loads(sub[l].got[j].data).id

\* C28: GET /mcp/logs?limit=n with n >= 0 answers with at most n entries, the
\* most recently logged ones in the order they were logged.
C28_Step ==
  (logs' # logs /\ logs'.limit >= 0) =>
    /\ Len(logs'.logs) <= logs'.limit
    /\ \A i \in 1..Len(logs'.logs) :
         logs'.logs[i] = entries[Len(entries) - Len(logs'.logs) + i]
    /\ Len(logs'.logs) = (IF Len(entries) < logs'.limit THEN Len(entries) ELSE logs'.limit)

C28_AtMostLimit == [][C28_Step]_vars

\* C29: a loading slot has at most one reservation that is not cancelled, and
\* a slot with a reservation that is neither cancelled nor completed is not
\* available.
C29_SlotReservedOnce ==
  \A slot_id \in SlotIds :
    /\ Cardinality({i \in ReservationIds : /\ reservations[i].slot_id = slot_id
                                           /\ reservations[i].status # "cancelled"}) <= 1
    /\ (\E i \in ReservationIds : /\ reservations[i].slot_id = slot_id
                                  /\ reservations[i].status \notin {"cancelled", "completed"})
         => slots[slot_id].status # "available"

\* C30: approve and reject change a request only when it is pending (to
\* approved, respectively rejected, recording the approver); applied to a
\* request already decided they leave it unchanged and the endpoint answers
\* 404 "Holiday request not found or already processed".
C30_Decided(request_id, approver_id, status) ==
  IF holiday_requests[request_id].status = "pending"
    THEN /\ holiday_requests'[request_id].status = status
         /\ holiday_requests'[request_id].approved_by = approver_id
    ELSE /\ holiday_requests'[request_id] = holiday_requests[request_id]
         /\ holiday_response' = NotFoundOrProcessed

C30_Step ==
  \A request_id \in HolidayRequestIds, approver_id \in UserIds :
    /\ approve_request(request_id, approver_id) => C30_Decided(request_id, approver_id, "approved")
    /\ reject_request(request_id, approver_id) => C30_Decided(request_id, approver_id, "rejected")

C30_OnlyPendingDecided == [][C30_Step]_vars

====
